---- MODULE Spec2Model ----
(***************************************************************************)
(* A model of main.py: the /validate-file handler of the document          *)
(* validator.  A request carries a declared document type, a filename and  *)
(* an upload; the handler checks the type, copies the upload to a          *)
(* temporary file, routes by extension to the image or the PDF extractor,  *)
(* removes the temporary file, normalizes the text and looks for the       *)
(* first registered keyword.                                               *)
(*                                                                         *)
(* Text is modelled character by character: a string is a sequence of      *)
(* one-character strings.  The OCR engine, the PDF library, the image      *)
(* library and the filesystem are the environment: what they return is an  *)
(* input of the request, and whether they raise is chosen freely.          *)
(***************************************************************************)
EXTENDS Integers, Sequences, FiniteSets, TLC

(***************************************************************************)
(* Strings                                                                 *)
(***************************************************************************)

\* The characters the regular expression class \s matches.
WHITESPACE == {" ", "\t", "\n", "\r"}

UPPERCASE == <<"A","B","C","D","E","F","G","H","I","J","K","L","M",
               "N","O","P","Q","R","S","T","U","V","W","X","Y","Z">>

LOWERCASE == <<"a","b","c","d","e","f","g","h","i","j","k","l","m",
               "n","o","p","q","r","s","t","u","v","w","x","y","z">>

\* str.lower() on one character.
lower_char(c) ==
    IF \E i \in 1..Len(UPPERCASE) : UPPERCASE[i] = c
    THEN LOWERCASE[CHOOSE i \in 1..Len(UPPERCASE) : UPPERCASE[i] = c]
    ELSE c

\* str.lower()
lower(s) == [i \in 1..Len(s) |-> lower_char(s[i])]

\* re.sub(r'\s+', ' ', text): every maximal run of whitespace becomes one
\* space.  A position survives when it is no whitespace or opens a run.
re_sub_whitespace(text) ==
    LET opens(i) == text[i] \notin WHITESPACE
                    \/ i = 1
                    \/ text[i - 1] \notin WHITESPACE
        kept == SelectSeq([i \in 1..Len(text) |-> i], opens)
    IN  [k \in 1..Len(kept) |->
            IF text[kept[k]] \in WHITESPACE THEN " " ELSE text[kept[k]]]

\* str.endswith(suffix)
endswith(s, suffix) ==
    /\ Len(s) >= Len(suffix)
    /\ SubSeq(s, Len(s) - Len(suffix) + 1, Len(s)) = suffix

\* The operator "in" on two strings: kw in text.
contains(kw, text) ==
    \E i \in 1..(Len(text) - Len(kw) + 1) : SubSeq(text, i, i + Len(kw) - 1) = kw

\* The slice text[:n].
slice_to(text, n) == SubSeq(text, 1, IF Len(text) < n THEN Len(text) ELSE n)

\* os.path.splitext(filename)[1]: from the last dot of the last path
\* component, unless that component has only dots before it.
splitext_ext(filename) ==
    LET seps == {i \in 1..Len(filename) : filename[i] = "/"}
        dots == {i \in 1..Len(filename) : filename[i] = "."}
        sep  == IF seps = {} THEN 0 ELSE CHOOSE i \in seps : \A j \in seps : j <= i
        dot  == IF dots = {} THEN 0 ELSE CHOOSE i \in dots : \A j \in dots : j <= i
    IN  IF dot > sep /\ \E k \in (sep + 1)..(dot - 1) : filename[k] # "."
        THEN SubSeq(filename, dot, Len(filename))
        ELSE <<>>

\* An optional value: Python's None, or a value.
None == [some |-> FALSE, val |-> <<>>]
Some(v) == [some |-> TRUE, val |-> v]

\* bool(x) of an optional string: None and "" are falsy.
truthy(x) == x.some /\ x.val # <<>>

(***************************************************************************)
(* The registry and the pure part of the handler                           *)
(***************************************************************************)

DOCUMENT_KEYWORDS ==
    "sss-gsis-umid" :> <<
        <<"u","n","i","f","i","e","d"," ","m","u","l","t","i","-","p","u","r","p","o","s","e"," ","i","d">>,
        <<"m","u","l","t","i","-","p","u","r","p","o","s","e">>,
        <<"p","a","m","b","a","n","s","a","n","g"," ","p","a","g","k","a","k","a","k","i","l","a","n","l","a","n">>,
        <<"p","h","i","l","i","p","p","i","n","e"," ","i","d","e","n","t","i","f","i","c","a","t","i","o","n"," ","c","a","r","d">>,
        <<"g","s","i","s">>,
        <<"s","s","s">>>>
    @@ "philid" :> <<
        <<"p","h","i","l","i","p","p","i","n","e"," ","i","d","e","n","t","i","f","i","c","a","t","i","o","n"," ","c","a","r","d">>,
        <<"p","a","m","b","a","n","s","a","n","g"," ","p","a","g","k","a","k","a","k","i","l","a","n","l","a","n">>>>
    @@ "business-permit" :> <<
        <<"b","u","s","i","n","e","s","s"," ","p","e","r","m","i","t">>>>
    @@ "articles-of-incorporation" :> <<
        <<"a","r","t","i","c","l","e","s"," ","o","f"," ","i","n","c","o","r","p","o","r","a","t","i","o","n">>,
        <<"i","n","c","o","r","p","o","r","a","t","e","d">>>>
    @@ "dti-license" :> <<
        <<"d","e","p","a","r","t","m","e","n","t"," ","o","f"," ","t","r","a","d","e"," ","a","n","d"," ","i","n","d","u","s","t","r","y">>,
        <<"d","t","i"," ","c","e","r","t","i","f","i","c","a","t","e">>>>
    @@ "bir-form" :> <<
        <<"b","i","r"," ","f","o","r","m">>,
        <<"b","u","r","e","a","u"," ","o","f"," ","i","n","t","e","r","n","a","l"," ","r","e","v","e","n","u","e">>>>
    @@ "amended-gis" :> <<
        <<"a","m","e","n","d","e","d"," ","g","e","n","e","r","a","l"," ","i","n","f","o","r","m","a","t","i","o","n"," ","s","h","e","e","t">>,
        <<"a","m","e","n","d","e","d"," ","g","i","s">>>>
    @@ "sec" :> <<
        <<"s","e","c","u","r","i","t","i","e","s"," ","a","n","d"," ","e","x","c","h","a","n","g","e"," ","c","o","m","m","i","s","s","i","o","n">>>>
    @@ "passport" :> <<
        <<"p","a","s","s","p","o","r","t">>,
        <<"r","e","p","u","b","l","i","c"," ","o","f"," ","t","h","e"," ","p","h","i","l","i","p","p","i","n","e","s"," ","p","a","s","s","p","o","r","t">>>>
    @@ "drivers-license" :> <<
        <<"d","r","i","v","e","r","'","s"," ","l","i","c","e","n","s","e">>,
        <<"d","l","n">>>>
    @@ "tin-id" :> <<
        <<"t","a","x","p","a","y","e","r"," ","i","d","e","n","t","i","f","i","c","a","t","i","o","n"," ","n","u","m","b","e","r">>,
        <<"t","i","n"," ","i","d">>>>

\* The bound of the slice in "debug_text_snippet": normalized_text[:1000].
SNIPPET_LEN == 1000

DETECTED == <<" ","d","e","t","e","c","t","e","d",".">>

NO_KEYWORD_FOUND == <<"N","o"," ","e","x","p","e","c","t","e","d"," ",
                      "k","e","y","w","o","r","d"," ","f","o","u","n","d",".">>

\* The check of the type left out.
type_supported_always(type) == TRUE

\* type in DOCUMENT_KEYWORDS
type_supported(type) == type \in DOMAIN DOCUMENT_KEYWORDS

\* normalize_text without .lower()
normalize_text_keeps_case(text) == re_sub_whitespace(text)

\* normalize_text
normalize_text(text) == lower(re_sub_whitespace(text))

\* next(...) with the first keyword for its default.
found_keyword_default_first(keywords, normalized_text) ==
    LET hits == {k \in 1..Len(keywords) : contains(keywords[k], normalized_text)}
    IN  IF hits = {} THEN Some(keywords[1])
        ELSE Some(keywords[CHOOSE k \in hits : \A j \in hits : k <= j])

\* next((kw for kw in keywords if kw in normalized_text), None)
found_keyword(keywords, normalized_text) ==
    LET hits == {k \in 1..Len(keywords) : contains(keywords[k], normalized_text)}
    IN  IF hits = {} THEN None
        ELSE Some(keywords[CHOOSE k \in hits : \A j \in hits : k <= j])

\* The snippet without its slice.
debug_text_snippet_whole(normalized_text) == normalized_text

\* The slice of the snippet.
debug_text_snippet(normalized_text) == slice_to(normalized_text, SNIPPET_LEN)

\* The content of the JSONResponse.
response_content(keywords, normalized_text) ==
    LET found == found_keyword(keywords, normalized_text)
    IN  [is_valid |-> truthy(found),
         message  |-> IF truthy(found)
                      THEN <<"\"">> \o found.val \o <<"\"">> \o DETECTED
                      ELSE NO_KEYWORD_FOUND,
         debug_text_snippet |-> debug_text_snippet(normalized_text)]

NoContent == [is_valid |-> FALSE, message |-> <<>>, debug_text_snippet |-> <<>>]

(***************************************************************************)
(* Exceptions and responses                                                *)
(***************************************************************************)

NoExc == [kind |-> "none", status_code |-> 0, detail |-> ""]

HTTPException(status_code, detail) ==
    [kind |-> "HTTPException", status_code |-> status_code, detail |-> detail]

\* An exception of a library or of the operating system.
Raised(kind, detail) == [kind |-> kind, status_code |-> 0, detail |-> detail]

UnsupportedDocumentType == HTTPException(400, "Unsupported document type")
UnsupportedFileFormat   == HTTPException(400, "Unsupported file format")
DecodeError == Raised("UnidentifiedImageError", "cannot identify image file")
ParseError  == Raised("PDFSyntaxError", "No /Root object! - Is this really a PDF?")
OCRFailure  == Raised("TesseractError", "tesseract failed")
IOFailure   == Raised("OSError", "Input/output error")
NotFound    == Raised("FileNotFoundError", "No such file or directory")
KeyError    == Raised("KeyError", "type")

\* str(e)
str_of(e) ==
    IF e.kind = "HTTPException"
    THEN ToString(e.status_code) \o ": " \o e.detail
    ELSE e.detail

NoResponse == [status |-> 0, detail |-> "", content |-> NoContent]

\* return JSONResponse(content=...)
JSONResponse(content) == [status |-> 200, detail |-> "", content |-> content]

\* The status the handler gives an exception it caught.
except_status(e) == 500

\* raise HTTPException(status_code=500, detail=str(e))
ErrorResponse(e) ==
    [status |-> except_status(e), detail |-> str_of(e), content |-> NoContent]

(***************************************************************************)
(* Uploads                                                                 *)
(***************************************************************************)

\* What a file holds, as the libraries see it: an image with the text OCR
\* reads off it, a PDF with its pages, or neither.
ImageFile(ocr)  == [kind |-> "image", ocr |-> ocr, pages |-> <<>>]
PdfFile(pages)  == [kind |-> "pdf", ocr |-> <<>>, pages |-> pages]
GarbageFile     == [kind |-> "garbage", ocr |-> <<>>, pages |-> <<>>]
EmptyFile       == [kind |-> "empty", ocr |-> <<>>, pages |-> <<>>]

\* A page: what page.extract_text() returns and what OCR reads off its raster.
Page(extracted, ocr) == [extracted |-> extracted, ocr |-> ocr]

(***************************************************************************)
(* State                                                                   *)
(***************************************************************************)

VARIABLES
    req,              \* per request: the form fields type and file
    pc,               \* per request: where the handler stands
    fs,               \* the temporary directory: name -> [owner, content]
    tmp_path,         \* per request: process_file's tmp_path, or None
    ext,              \* per request: process_file's ext
    opened,           \* per request: the file the extractor has open
    text,             \* per request: extract_text_from_pdf's accumulator
    page_no,          \* per request: the page the loop of the PDF stands at
    ret,              \* per request: the value process_file is returning
    exc,              \* per request: the exception that is propagating
    raw_text,         \* per request: validate_file's raw_text
    normalized_text,  \* per request: validate_file's normalized_text
    resp,             \* per request: the response
    calls,            \* history: per request, the calls made so far
    ocr_pages,        \* history: per request, the pages OCR was run on
    raised,           \* history: per request, the exceptions raised so far
    fsops             \* history: the accesses to the temporary directory

vars == <<req, pc, fs, tmp_path, ext, opened, text, page_no, ret, exc,
          raw_text, normalized_text, resp, calls, ocr_pages, raised, fsops>>

Reqs == DOMAIN req

\* The names tempfile can draw: the random part of a name, with the suffix.
TmpIds == 1..Cardinality(Reqs)

TmpName(id, suffix) == [id |-> id, suffix |-> suffix]

\* A temporary file named after the suffix alone, opened whether or not it
\* exists.
temp_names_fixed(r) == {TmpName(1, splitext_ext(req[r].filename))}

\* NamedTemporaryFile(delete=False, suffix=...): mkstemp opens with O_EXCL,
\* so the name it returns is one no file has.
temp_names(r) ==
    {TmpName(id, splitext_ext(req[r].filename)) : id \in TmpIds} \ DOMAIN fs

remove_file(name) == [n \in DOMAIN fs \ {name} |-> fs[n]]

put_file(name, owner, content) ==
    [n \in DOMAIN fs \cup {name} |->
        IF n = name THEN [owner |-> owner, content |-> content] ELSE fs[n]]

\* One access to the temporary directory, with the owner of the file then.
FsOp(op, r, name) ==
    [op |-> op, by |-> r, name |-> name,
     owner |-> IF name \in DOMAIN fs THEN fs[name].owner ELSE 0]

Call(r, name) == [calls EXCEPT ![r] = Append(@, name)]

Raise(r, e) ==
    /\ exc' = [exc EXCEPT ![r] = e]
    /\ raised' = [raised EXCEPT ![r] = Append(@, e)]

InitWith(ids, requests) ==
    /\ req \in [ids -> requests]
    /\ pc = [r \in ids |-> "v_type"]
    /\ fs = <<>>
    /\ tmp_path = [r \in ids |-> None]
    /\ ext = [r \in ids |-> <<>>]
    /\ opened = [r \in ids |-> EmptyFile]
    /\ text = [r \in ids |-> <<>>]
    /\ page_no = [r \in ids |-> 0]
    /\ ret = [r \in ids |-> <<>>]
    /\ exc = [r \in ids |-> NoExc]
    /\ raw_text = [r \in ids |-> <<>>]
    /\ normalized_text = [r \in ids |-> <<>>]
    /\ resp = [r \in ids |-> NoResponse]
    /\ calls = [r \in ids |-> <<>>]
    /\ ocr_pages = [r \in ids |-> <<>>]
    /\ raised = [r \in ids |-> <<>>]
    /\ fsops = {}

(***************************************************************************)
(* validate_file, lines 99-102                                             *)
(***************************************************************************)

\* if type not in DOCUMENT_KEYWORDS: raise HTTPException(400, ...)
CheckType(r) ==
    /\ pc[r] = "v_type"
    /\ IF type_supported(req[r].type)
       THEN /\ pc' = [pc EXCEPT ![r] = "p_create"]
            /\ UNCHANGED <<exc, raised>>
       ELSE /\ Raise(r, UnsupportedDocumentType)
            /\ pc' = [pc EXCEPT ![r] = "v_except"]
    /\ UNCHANGED <<req, fs, tmp_path, ext, opened, text, page_no, ret,
                   raw_text, normalized_text, resp, calls, ocr_pages, fsops>>

(***************************************************************************)
(* process_file                                                            *)
(***************************************************************************)

\* ext = file.filename.lower(); with tempfile.NamedTemporaryFile(...) as tmp
CreateTemp(r) ==
    /\ pc[r] = "p_create"
    /\ ext' = [ext EXCEPT ![r] = lower(req[r].filename)]
    /\ calls' = Call(r, "NamedTemporaryFile")
    /\ \/ \E name \in temp_names(r) :
            /\ fs' = put_file(name, r, EmptyFile)
            /\ fsops' = fsops \cup {FsOp("create", r, name)}
            /\ tmp_path' = [tmp_path EXCEPT ![r] = Some(name)]
            /\ pc' = [pc EXCEPT ![r] = "p_write"]
            /\ UNCHANGED <<exc, raised>>
       \/ /\ Raise(r, IOFailure)
          /\ pc' = [pc EXCEPT ![r] = "v_except"]
          /\ UNCHANGED <<fs, fsops, tmp_path>>
    /\ UNCHANGED <<req, opened, text, page_no, ret, raw_text,
                   normalized_text, resp, ocr_pages>>

\* tmp.write(file.file.read()); tmp_path = tmp.name.  The read or the write
\* may fail: that leaves the with statement, which closes the file and keeps
\* it (delete=False), and the try statement of line 75 is not entered.
WriteUpload(r) ==
    /\ pc[r] = "p_write"
    /\ \/ /\ calls' = [calls EXCEPT ![r] = @ \o <<"file.read", "tmp.write">>]
          /\ fs' = put_file(tmp_path[r].val, r, req[r].file)
          /\ fsops' = fsops \cup {FsOp("write", r, tmp_path[r].val)}
          /\ pc' = [pc EXCEPT ![r] = "p_route"]
          /\ UNCHANGED <<exc, raised>>
       \/ /\ calls' = Call(r, "file.read")
          /\ Raise(r, IOFailure)
          /\ pc' = [pc EXCEPT ![r] = "v_except"]
          /\ UNCHANGED <<fs, fsops>>
       \/ /\ calls' = [calls EXCEPT ![r] = @ \o <<"file.read", "tmp.write">>]
          /\ fsops' = fsops \cup {FsOp("write", r, tmp_path[r].val)}
          /\ Raise(r, IOFailure)
          /\ pc' = [pc EXCEPT ![r] = "v_except"]
          /\ UNCHANGED fs
    /\ UNCHANGED <<req, tmp_path, ext, opened, text, page_no, ret, raw_text,
                   normalized_text, resp, ocr_pages>>

IMAGE_SUFFIXES == {<<".","p","n","g">>, <<".","j","p","g">>, <<".","j","p","e","g">>}

PDF_SUFFIX == <<".","p","d","f">>

\* ext.endswith(('.png', '.jpg', '.jpeg'))
is_image(e) == \E s \in IMAGE_SUFFIXES : endswith(e, s)

\* '.pdf' in ext
is_pdf_anywhere(e) == contains(PDF_SUFFIX, e)

\* ext.endswith('.pdf')
is_pdf(e) == endswith(e, PDF_SUFFIX)

\* The branch of the if statement of lines 76-81.
route(e) == IF is_image(e) THEN "image" ELSE IF is_pdf(e) THEN "pdf" ELSE "unsupported"

\* if ext.endswith(...): ... elif ...: ... else: raise HTTPException(400, ...)
Route(r) ==
    /\ pc[r] = "p_route"
    /\ \/ /\ route(ext[r]) = "image"
          /\ calls' = Call(r, "extract_text_from_image")
          /\ pc' = [pc EXCEPT ![r] = "i_open"]
          /\ UNCHANGED <<exc, raised>>
       \/ /\ route(ext[r]) = "pdf"
          /\ calls' = Call(r, "extract_text_from_pdf")
          /\ pc' = [pc EXCEPT ![r] = "f_open"]
          /\ UNCHANGED <<exc, raised>>
       \/ /\ route(ext[r]) = "unsupported"
          /\ Raise(r, UnsupportedFileFormat)
          /\ pc' = [pc EXCEPT ![r] = "p_finally"]
          /\ UNCHANGED calls
    /\ UNCHANGED <<req, fs, tmp_path, ext, opened, text, page_no, ret,
                   raw_text, normalized_text, resp, ocr_pages, fsops>>

\* The file at path as the extractor finds it: the file, or none.
file_at(path) == IF path \in DOMAIN fs THEN Some(fs[path].content) ELSE None

\* preprocess_image: Image.open(path), convert, autocontrast, resize.
PreprocessImage(r) ==
    /\ pc[r] = "i_open"
    /\ calls' = Call(r, "preprocess_image")
    /\ fsops' = fsops \cup {FsOp("read", r, tmp_path[r].val)}
    /\ LET f == file_at(tmp_path[r].val)
       IN  IF f.some /\ f.val.kind = "image"
           THEN /\ opened' = [opened EXCEPT ![r] = f.val]
                /\ pc' = [pc EXCEPT ![r] = "i_ocr"]
                /\ UNCHANGED <<exc, raised>>
           ELSE /\ Raise(r, IF f.some THEN DecodeError ELSE NotFound)
                /\ pc' = [pc EXCEPT ![r] = "p_finally"]
                /\ UNCHANGED opened
    /\ UNCHANGED <<req, fs, tmp_path, ext, text, page_no, ret, raw_text,
                   normalized_text, resp, ocr_pages>>

\* return pytesseract.image_to_string(image)
OcrImage(r) ==
    /\ pc[r] = "i_ocr"
    /\ calls' = Call(r, "image_to_string")
    /\ \/ /\ ret' = [ret EXCEPT ![r] = opened[r].ocr]
          /\ UNCHANGED <<exc, raised>>
       \/ /\ Raise(r, OCRFailure)
          /\ UNCHANGED ret
    /\ pc' = [pc EXCEPT ![r] = "p_finally"]
    /\ UNCHANGED <<req, fs, tmp_path, ext, opened, text, page_no, raw_text,
                   normalized_text, resp, ocr_pages, fsops>>

\* text = ""; with pdfplumber.open(path) as pdf
OpenPdf(r) ==
    /\ pc[r] = "f_open"
    /\ calls' = Call(r, "pdfplumber.open")
    /\ fsops' = fsops \cup {FsOp("read", r, tmp_path[r].val)}
    /\ text' = [text EXCEPT ![r] = <<>>]
    /\ LET f == file_at(tmp_path[r].val)
       IN  IF f.some /\ f.val.kind = "pdf"
           THEN /\ opened' = [opened EXCEPT ![r] = f.val]
                /\ page_no' = [page_no EXCEPT ![r] = 1]
                /\ pc' = [pc EXCEPT ![r] = "f_page"]
                /\ UNCHANGED <<exc, raised>>
           ELSE /\ Raise(r, IF f.some THEN ParseError ELSE NotFound)
                /\ pc' = [pc EXCEPT ![r] = "p_finally"]
                /\ UNCHANGED <<opened, page_no>>
    /\ UNCHANGED <<req, fs, tmp_path, ext, ret, raw_text, normalized_text,
                   resp, ocr_pages>>

\* if page_text is not None
uses_page_text_if_not_none(page) == page.extracted.some

\* Whether the loop takes the branch of page.extract_text(): if page_text
uses_page_text(page) == truthy(page.extracted)

\* What a page adds to the accumulator: text += ... + "\n"
page_contribution(page) ==
    (IF uses_page_text(page) THEN page.extracted.val ELSE page.ocr) \o <<"\n">>

\* The loop with OCR in a try statement that passes.
ocr_failure_swallowed == FALSE

\* Whether a failure of OCR on a page leaves extract_text_from_pdf: it does,
\* the loop has no except clause.
ocr_failure_propagates == TRUE

\* One turn of "for page in pdf.pages", lines 62-67.
PdfPage(r) ==
    /\ pc[r] = "f_page"
    /\ page_no[r] <= Len(opened[r].pages)
    /\ LET page == opened[r].pages[page_no[r]]
       IN  \/ /\ uses_page_text(page)
              /\ text' = [text EXCEPT ![r] = @ \o page_contribution(page)]
              /\ calls' = Call(r, "extract_text")
              /\ page_no' = [page_no EXCEPT ![r] = @ + 1]
              /\ UNCHANGED <<pc, exc, raised, ocr_pages>>
           \/ /\ ~uses_page_text(page)
              /\ text' = [text EXCEPT ![r] = @ \o page_contribution(page)]
              /\ calls' = [calls EXCEPT ![r] =
                              @ \o <<"extract_text", "to_image", "image_to_string">>]
              /\ ocr_pages' = [ocr_pages EXCEPT ![r] = Append(@, page_no[r])]
              /\ page_no' = [page_no EXCEPT ![r] = @ + 1]
              /\ UNCHANGED <<pc, exc, raised>>
           \/ /\ ~uses_page_text(page)
              /\ calls' = [calls EXCEPT ![r] =
                              @ \o <<"extract_text", "to_image", "image_to_string">>]
              /\ ocr_pages' = [ocr_pages EXCEPT ![r] = Append(@, page_no[r])]
              /\ IF ocr_failure_propagates
                 THEN /\ Raise(r, OCRFailure)
                      /\ pc' = [pc EXCEPT ![r] = "p_finally"]
                      /\ UNCHANGED <<text, page_no>>
                 ELSE /\ raised' = [raised EXCEPT ![r] = Append(@, OCRFailure)]
                      /\ page_no' = [page_no EXCEPT ![r] = @ + 1]
                      /\ UNCHANGED <<pc, exc, text>>
    /\ UNCHANGED <<req, fs, tmp_path, ext, opened, ret, raw_text,
                   normalized_text, resp, fsops>>

\* return text, line 68
PdfReturn(r) ==
    /\ pc[r] = "f_page"
    /\ page_no[r] > Len(opened[r].pages)
    /\ ret' = [ret EXCEPT ![r] = text[r]]
    /\ pc' = [pc EXCEPT ![r] = "p_finally"]
    /\ UNCHANGED <<req, fs, tmp_path, ext, opened, text, page_no, exc,
                   raw_text, normalized_text, resp, calls, ocr_pages, raised,
                   fsops>>

\* finally: os.remove(tmp_path), then the return or the exception goes on to
\* validate_file.  An exception of os.remove replaces either.
Finally(r) ==
    /\ pc[r] = "p_finally"
    /\ calls' = Call(r, "os.remove")
    /\ \/ /\ tmp_path[r].val \in DOMAIN fs
          /\ fs' = remove_file(tmp_path[r].val)
          /\ fsops' = fsops \cup {FsOp("remove", r, tmp_path[r].val)}
          /\ IF exc[r] = NoExc
             THEN /\ raw_text' = [raw_text EXCEPT ![r] = ret[r]]
                  /\ pc' = [pc EXCEPT ![r] = "v_respond"]
             ELSE /\ pc' = [pc EXCEPT ![r] = "v_except"]
                  /\ UNCHANGED raw_text
          /\ UNCHANGED <<exc, raised>>
       \/ /\ Raise(r, IF tmp_path[r].val \in DOMAIN fs THEN IOFailure ELSE NotFound)
          /\ fsops' = fsops \cup {FsOp("remove_failed", r, tmp_path[r].val)}
          /\ pc' = [pc EXCEPT ![r] = "v_except"]
          /\ UNCHANGED <<fs, raw_text>>
    /\ UNCHANGED <<req, tmp_path, ext, opened, text, page_no, ret,
                   normalized_text, resp, ocr_pages>>

(***************************************************************************)
(* validate_file, lines 103-113                                            *)
(***************************************************************************)

\* DOCUMENT_KEYWORDS[type]: a KeyError when the type is no key.
Respond(r) ==
    /\ pc[r] = "v_respond"
    /\ normalized_text' = [normalized_text EXCEPT ![r] = normalize_text(raw_text[r])]
    /\ IF req[r].type \in DOMAIN DOCUMENT_KEYWORDS
       THEN /\ resp' = [resp EXCEPT ![r] = JSONResponse(
                            response_content(DOCUMENT_KEYWORDS[req[r].type],
                                             normalize_text(raw_text[r])))]
            /\ pc' = [pc EXCEPT ![r] = "done"]
            /\ UNCHANGED <<exc, raised>>
       ELSE /\ Raise(r, KeyError)
            /\ pc' = [pc EXCEPT ![r] = "v_except"]
            /\ UNCHANGED resp
    /\ UNCHANGED <<req, fs, tmp_path, ext, opened, text, page_no, ret,
                   raw_text, calls, ocr_pages, fsops>>

\* except Exception as e: raise HTTPException(status_code=500, detail=str(e))
Except(r) ==
    /\ pc[r] = "v_except"
    /\ resp' = [resp EXCEPT ![r] = ErrorResponse(exc[r])]
    /\ pc' = [pc EXCEPT ![r] = "done"]
    /\ UNCHANGED <<req, fs, tmp_path, ext, opened, text, page_no, ret, exc,
                   raw_text, normalized_text, calls, ocr_pages, raised, fsops>>

Next ==
    \/ \E r \in Reqs : CheckType(r)
    \/ \E r \in Reqs : CreateTemp(r)
    \/ \E r \in Reqs : WriteUpload(r)
    \/ \E r \in Reqs : Route(r)
    \/ \E r \in Reqs : PreprocessImage(r)
    \/ \E r \in Reqs : OcrImage(r)
    \/ \E r \in Reqs : OpenPdf(r)
    \/ \E r \in Reqs : PdfPage(r)
    \/ \E r \in Reqs : PdfReturn(r)
    \/ \E r \in Reqs : Finally(r)
    \/ \E r \in Reqs : Respond(r)
    \/ \E r \in Reqs : Except(r)

(***************************************************************************)
(* Requests                                                                *)
(***************************************************************************)

\* The most pages a PDF of the model has.
MaxPages == 3

\* The number of requests served concurrently under SpecConc.
NumConc == 2

Range(s) == {s[i] : i \in DOMAIN s}

upper_char(c) ==
    IF \E i \in 1..Len(LOWERCASE) : LOWERCASE[i] = c
    THEN UPPERCASE[CHOOSE i \in 1..Len(LOWERCASE) : LOWERCASE[i] = c]
    ELSE c

\* A text in another letter case: as it is, upper case, or every other
\* letter upper case.
recase(s, mode) ==
    [i \in 1..Len(s) |->
        IF mode = "upper" \/ (mode = "mixed" /\ i % 2 = 1)
        THEN upper_char(s[i]) ELSE s[i]]

\* A text with every space replaced by a run of whitespace.
RECURSIVE spread(_, _)
spread(s, run) ==
    IF s = <<>> THEN <<>>
    ELSE (IF Head(s) = " " THEN run ELSE <<Head(s)>>) \o spread(Tail(s), run)

\* n copies of a character.
filler(c, n) == [i \in 1..n |-> c]

AllKeywords == UNION {Range(DOCUMENT_KEYWORDS[t]) : t \in DOMAIN DOCUMENT_KEYWORDS}

LetterCases == {"lower", "upper", "mixed"}

WhitespaceRuns == {<<" ">>, <<"\n", "\t", " ">>}

\* What stands before and after a keyword on the document.
Surroundings ==
    {<<<<>>, <<>>>>,
     <<<<"N","o","."," ","7","\n">>, <<" ","2","3","0","3","\r","\n","x">>>>}

\* Texts that hold a keyword, in each letter case, spacing and surrounding.
KeywordTexts ==
    {sur[1] \o recase(spread(kw, run), mode) \o sur[2] :
        kw \in AllKeywords, run \in WhitespaceRuns,
        mode \in LetterCases, sur \in Surroundings}

PASS_PORT == <<"P","a","s","s"," ","p","o","r","t">>
LOREM == <<"L","o","r","e","m"," ","\n","i","p","s","u","m">>
UNINCORPORATED == <<"U","n","i","n","c","o","r","p","o","r","a","t","e","d">>
BIR_FORM_2303 == <<"B","I","R"," ","F","O","R","M"," ","2","3","0","3">>
PASSPORT_CAPS == <<"P","A","S","S","P","O","R","T">>

\* Texts longer than the snippet: all letters, all whitespace, and a keyword
\* behind the place where the snippet is cut.
LongTexts ==
    {filler("X", SNIPPET_LEN + 1),
     filler("X", SNIPPET_LEN - 1) \o filler(" ", 3) \o <<"Y", "Z">>,
     filler("x", SNIPPET_LEN) \o <<"\n">> \o PASSPORT_CAPS}

OtherTexts ==
    {<<>>, <<" ", "\n">>, PASS_PORT, LOREM, UNINCORPORATED, BIR_FORM_2303}

Texts == KeywordTexts \cup OtherTexts \cup LongTexts

Types == DOMAIN DOCUMENT_KEYWORDS \cup {"nbi-clearance", "PASSPORT"}

Filenames ==
    {<<"s","c","a","n",".","p","n","g">>,
     <<"S","C","A","N",".","P","N","G">>,
     <<"i","d",".","j","p","g">>,
     <<"i","d",".","J","p","E","g">>,
     <<"f","o","r","m",".","p","d","f">>,
     <<"F","O","R","M",".","P","d","f">>,
     <<"n","o","t","e","s",".","t","x","t">>,
     <<"f","o","r","m",".","p","d","f",".","b","a","k">>,
     <<"p","n","g">>,
     <<".","p","d","f">>}

\* The pages of the PDFs: with a text layer (OCR would read PASSPORT off
\* them), and without one: extract_text() gives None or "", and OCR reads a
\* text or nothing.
Pages ==
    {Page(Some(BIR_FORM_2303), PASSPORT_CAPS),
     Page(Some(LOREM), PASSPORT_CAPS),
     Page(None, BIR_FORM_2303),
     Page(Some(<<>>), LOREM),
     Page(None, <<>>)}

RECURSIVE SeqsUpTo(_, _)
SeqsUpTo(S, n) ==
    IF n = 0 THEN {<<>>}
    ELSE LET shorter == SeqsUpTo(S, n - 1)
         IN  shorter \cup {Append(s, x) : s \in shorter, x \in S}

Pdfs == {PdfFile(ps) : ps \in SeqsUpTo(Pages, MaxPages)}

Upload(filename, file) == [filename |-> filename, file |-> file]

\* The uploads: scans with every text, PDFs with every choice of pages, and
\* every filename on an image, a PDF and a file that is neither.
Uploads ==
    {Upload(<<"s","c","a","n",".","p","n","g">>, ImageFile(t)) : t \in Texts}
    \cup {Upload(<<"f","o","r","m",".","p","d","f">>, f) : f \in Pdfs}
    \cup {Upload(n, f) : n \in Filenames,
                         f \in {ImageFile(BIR_FORM_2303),
                                PdfFile(<<Page(Some(BIR_FORM_2303), <<>>)>>),
                                GarbageFile}}

Request(type, upload) ==
    [type |-> type, filename |-> upload.filename, file |-> upload.file]

Requests == {Request(t, u) : t \in Types, u \in Uploads}

\* The requests of the concurrent runs, checked as UMID cards: a scan that
\* reads SSS, and a PDF of a page with the text layer DLN and a page without
\* one that reads GSIS.
ConcUploads ==
    {Upload(<<"a",".","p","n","g">>, ImageFile(<<"S","S","S">>)),
     Upload(<<"b",".","p","d","f">>,
            PdfFile(<<Page(Some(<<"D","L","N">>), <<>>),
                      Page(None, <<"G","S","I","S">>)>>))}

ConcRequests == {Request("sss-gsis-umid", u) : u \in ConcUploads}

\* One request.
Init == InitWith({1}, Requests)

Spec == Init /\ [][Next]_vars

\* NumConc requests, served in any interleaving.
InitConc == InitWith(1..NumConc, ConcRequests)

SpecConc == InitConc /\ [][Next]_vars

(***************************************************************************)
(* What the properties speak of                                            *)
(***************************************************************************)

Done(r) == pc[r] = "done"
Succeeded(r) == pc[r] = "done" /\ resp[r].status = 200
Called(r, name) == \E i \in 1..Len(calls[r]) : calls[r][i] = name
TimesCalled(r, name) == Cardinality({i \in 1..Len(calls[r]) : calls[r][i] = name})
HasRaised(r, e) == \E i \in 1..Len(raised[r]) : raised[r][i] = e

\* The character x is the letter c in either case.
same_letter(x, c) == x = c \/ x = upper_char(c)

\* The keyword kw from position k on matches the text from position i on:
\* a letter in either case for a letter, whitespace of any length for a space.
RECURSIVE matches_at(_, _, _, _)
matches_at(kw, k, S, i) ==
    IF k > Len(kw) THEN TRUE
    ELSE IF i > Len(S) THEN FALSE
    ELSE IF kw[k] = " "
         THEN S[i] \in WHITESPACE
              /\ (matches_at(kw, k, S, i + 1) \/ matches_at(kw, k + 1, S, i + 1))
         ELSE same_letter(S[i], kw[k]) /\ matches_at(kw, k + 1, S, i + 1)

\* The text S holds the keyword kw, in any letter case and spacing.
occurs(kw, S) == \E i \in 1..Len(S) : matches_at(kw, 1, S, i)

\* "kw" detected.
names_keyword(message, kw) == message = <<"\"">> \o kw \o <<"\"">> \o DETECTED

\* The filename ends in the suffix, in any letter case.
has_extension(filename, suffix) ==
    /\ Len(filename) >= Len(suffix)
    /\ \A i \in 1..Len(suffix) :
          same_letter(filename[Len(filename) - Len(suffix) + i], suffix[i])

image_name(filename) == \E s \in IMAGE_SUFFIXES : has_extension(filename, s)
pdf_name(filename) == has_extension(filename, PDF_SUFFIX)

\* process_file of request r is past its if statement.
Routed(r) ==
    \/ pc[r] \in {"i_open", "i_ocr", "f_open", "f_page", "p_finally", "v_respond"}
    \/ Called(r, "os.remove")

\* The text of the pages, page by page: the text layer where there is one,
\* what OCR reads otherwise, a newline after each.
RECURSIVE pages_text(_)
pages_text(pages) ==
    IF pages = <<>> THEN <<>>
    ELSE LET p == Head(pages)
         IN  (IF p.extracted.some /\ Len(p.extracted.val) > 0
              THEN p.extracted.val ELSE p.ocr)
             \o <<"\n">> \o pages_text(Tail(pages))

\* The pages without a text layer, in order.
scanned_pages(pages) ==
    SelectSeq([i \in 1..Len(pages) |-> i],
              LAMBDA i : ~pages[i].extracted.some \/ pages[i].extracted.val = <<>>)

\* The text of a file as the libraries read it.
file_text(f) == IF f.kind = "pdf" THEN pages_text(f.pages) ELSE f.ocr

(***************************************************************************)
(* C1                                                                      *)
(***************************************************************************)

\* C1: a request that fails because of its document type or its extension
\* ends with status 400, a request that fails otherwise with status 500.
C1_ClientErrorStatus ==
    \A r \in Reqs :
        (Done(r) /\ raised[r] # <<>>) =>
            IF raised[r][1] \in {UnsupportedDocumentType, UnsupportedFileFormat}
               /\ Len(raised[r]) = 1
            THEN resp[r].status = 400
            ELSE resp[r].status = 500

(***************************************************************************)
(* C2                                                                      *)
(***************************************************************************)

\* C2: a request whose type is no key of the registry reads no upload,
\* creates no temporary file and calls no extractor, at any time.
C2_NoWorkForUnknownType ==
    \A r \in Reqs :
        req[r].type \notin DOMAIN DOCUMENT_KEYWORDS =>
            /\ calls[r] = <<>>
            /\ tmp_path[r] = None
            /\ \A o \in fsops : o.by # r
            /\ pc[r] \in {"v_type", "v_except", "done"}

C2_Witness ==
    \E r \in Reqs :
        /\ req[r].type \notin DOMAIN DOCUMENT_KEYWORDS
        /\ Done(r)
        /\ resp[r].status # 200
        /\ HasRaised(r, UnsupportedDocumentType)

(***************************************************************************)
(* C3                                                                      *)
(***************************************************************************)

\* C3: when a request has returned, the temporary file it created is gone
\* and was removed once, unless os.remove itself failed.
C3_TempFileRemoved ==
    \A r \in Reqs :
        (Done(r) /\ tmp_path[r].some) =>
            \/ /\ tmp_path[r].val \notin DOMAIN fs
               /\ TimesCalled(r, "os.remove") = 1
            \/ \E o \in fsops : o.op = "remove_failed" /\ o.by = r

(***************************************************************************)
(* C4                                                                      *)
(***************************************************************************)

\* C4 as stated: when the text holds a keyword of the type, in any case and
\* spacing, the response is valid and its message names that keyword.
C4_NamesThatKeyword ==
    \A r \in Reqs :
        Succeeded(r) =>
            \A kw \in Range(DOCUMENT_KEYWORDS[req[r].type]) :
                occurs(kw, raw_text[r]) =>
                    /\ resp[r].content.is_valid
                    /\ names_keyword(resp[r].content.message, kw)

\* C4 as amended: when the text holds a keyword of the type, in any case and
\* spacing, the response is valid and its message names the first keyword
\* of the type, in the order of the registry, that the text holds.
C4_NamesFirstKeyword ==
    \A r \in Reqs :
        Succeeded(r) =>
            LET kws == DOCUMENT_KEYWORDS[req[r].type]
            IN  \A k \in 1..Len(kws) :
                    occurs(kws[k], raw_text[r]) =>
                        /\ resp[r].content.is_valid
                        /\ \E j \in 1..k :
                              /\ occurs(kws[j], raw_text[r])
                              /\ \A i \in 1..(j - 1) : ~occurs(kws[i], raw_text[r])
                              /\ names_keyword(resp[r].content.message, kws[j])

\* A keyword in upper case with wide spacing, behind an earlier keyword the
\* text does not hold.
C4_Witness ==
    \E r \in Reqs :
        /\ Succeeded(r)
        /\ resp[r].content.is_valid
        /\ LET kws == DOCUMENT_KEYWORDS[req[r].type]
           IN  /\ Len(kws) > 1
               /\ ~occurs(kws[1], raw_text[r])
               /\ occurs(kws[2], raw_text[r])
               /\ ~contains(kws[2], raw_text[r])
               /\ names_keyword(resp[r].content.message, kws[2])

(***************************************************************************)
(* C5                                                                      *)
(***************************************************************************)

\* C5: when the text holds no keyword of the type, the response is not
\* valid and has the fixed message; for the empty text the snippet is empty.
C5_NoKeywordNotValid ==
    \A r \in Reqs :
        Succeeded(r) =>
            /\ (\A kw \in Range(DOCUMENT_KEYWORDS[req[r].type]) :
                    ~occurs(kw, raw_text[r]))
               => /\ resp[r].content.is_valid = FALSE
                  /\ resp[r].content.message = NO_KEYWORD_FOUND
            /\ raw_text[r] = <<>> => resp[r].content.debug_text_snippet = <<>>

\* The empty text, checked as a DTI license.
C5_Witness ==
    \E r \in Reqs :
        /\ Succeeded(r)
        /\ req[r].type = "dti-license"
        /\ raw_text[r] = <<>>
        /\ resp[r].content.is_valid = FALSE
        /\ resp[r].content.message = NO_KEYWORD_FOUND
        /\ resp[r].content.debug_text_snippet = <<>>

(***************************************************************************)
(* C6                                                                      *)
(***************************************************************************)

\* C6: a temporary file is created under a name no file has, only the
\* request that created a file writes, reads or removes it, and the text a
\* request extracts is the text of its own upload.
C6_TempFilesPrivate ==
    /\ \A o \in fsops :
          IF o.op = "create" THEN o.owner = 0 ELSE o.owner = o.by
    /\ \A n \in DOMAIN fs :
          /\ tmp_path[fs[n].owner] = Some(n)
          /\ fs[n].content \in {EmptyFile, req[fs[n].owner].file}
    /\ \A r \in Reqs :
          /\ opened[r] \in {EmptyFile, req[r].file}
          /\ (pc[r] = "v_respond" \/ Succeeded(r)) =>
                raw_text[r] = file_text(req[r].file)

\* Two requests with different uploads, each with its file in the directory
\* and its extractor at work.
C6_Witness ==
    \E r1, r2 \in Reqs :
        /\ r1 # r2
        /\ req[r1].file # req[r2].file
        /\ pc[r1] = "i_ocr"
        /\ pc[r2] = "f_page"
        /\ tmp_path[r1].val \in DOMAIN fs
        /\ tmp_path[r2].val \in DOMAIN fs
        /\ tmp_path[r1] # tmp_path[r2]

(***************************************************************************)
(* C7                                                                      *)
(***************************************************************************)

\* C7: a request in which a step raised ends with a failure response whose
\* detail is the string of the exception; a request that ends with the
\* success payload raised nothing, read every page of its document and
\* removed its temporary file.
C7_NoPartialResults ==
    \A r \in Reqs :
        Done(r) =>
            /\ raised[r] # <<>> =>
                  /\ resp[r].status >= 400
                  /\ resp[r].detail = str_of(raised[r][Len(raised[r])])
                  /\ resp[r].content = NoContent
            /\ resp[r].status = 200 =>
                  /\ raised[r] = <<>>
                  /\ TimesCalled(r, "os.remove") = 1
                  /\ tmp_path[r].val \notin DOMAIN fs
                  /\ raw_text[r] = file_text(req[r].file)
                  /\ Called(r, "extract_text_from_pdf") =>
                        TimesCalled(r, "extract_text") = Len(req[r].file.pages)

\* OCR failed on a later page of a PDF, after text of an earlier page was
\* gathered, and the request failed.
C7_Witness ==
    \E r \in Reqs :
        /\ Done(r)
        /\ text[r] # <<>>
        /\ HasRaised(r, OCRFailure)
        /\ resp[r].status = 500
        /\ resp[r].content = NoContent

(***************************************************************************)
(* C8                                                                      *)
(***************************************************************************)

\* C8: the image extractor is called only for, and once routed always for,
\* a filename that ends in .png, .jpg or .jpeg in any letter case; the PDF
\* extractor likewise for .pdf; for any other filename neither is called
\* and process_file raises the unsupported-format error.
C8_RoutesByExtension ==
    \A r \in Reqs :
        LET img == Called(r, "extract_text_from_image")
            pdf == Called(r, "extract_text_from_pdf")
        IN  /\ img => image_name(req[r].filename) /\ ~pdf
            /\ pdf => pdf_name(req[r].filename) /\ ~img
            /\ Routed(r) =>
                  /\ image_name(req[r].filename) => img
                  /\ pdf_name(req[r].filename) => pdf
                  /\ (~image_name(req[r].filename) /\ ~pdf_name(req[r].filename)) =>
                        /\ ~img /\ ~pdf
                        /\ HasRaised(r, UnsupportedFileFormat)

\* A PDF under a name in mixed case went to the PDF extractor.
C8_Witness ==
    \E r \in Reqs :
        /\ req[r].filename = <<"F","O","R","M",".","P","d","f">>
        /\ Called(r, "extract_text_from_pdf")
        /\ Succeeded(r)

(***************************************************************************)
(* C9                                                                      *)
(***************************************************************************)

\* C9: in a success response the snippet is the first 1000 characters of
\* the normalized text, all of it when it is shorter.
C9_SnippetIsPrefix ==
    \A r \in Reqs :
        Succeeded(r) =>
            LET snippet == resp[r].content.debug_text_snippet
                n == Len(normalized_text[r])
            IN  /\ Len(snippet) <= 1000
                /\ Len(snippet) = IF n < 1000 THEN n ELSE 1000
                /\ \A i \in 1..Len(snippet) : snippet[i] = normalized_text[r][i]

\* A normalized text of more than 1000 characters, cut.
C9_Witness ==
    \E r \in Reqs :
        /\ Succeeded(r)
        /\ Len(normalized_text[r]) > 1000
        /\ Len(resp[r].content.debug_text_snippet) = 1000

(***************************************************************************)
(* C10                                                                     *)
(***************************************************************************)

\* C10: the accumulator of extract_text_from_pdf holds, for the pages read
\* so far and in their order, the text layer of a page that has one and the
\* OCR output of a page that has none, each with a newline; OCR was run on
\* the pages without a text layer and on no other; and a keyword of the
\* type in the text of any page makes the response valid.
C10_PdfPageByPage ==
    \A r \in Reqs :
        /\ pc[r] = "f_page" =>
              LET read == SubSeq(opened[r].pages, 1, page_no[r] - 1)
              IN  /\ text[r] = pages_text(read)
                  /\ ocr_pages[r] = scanned_pages(read)
        /\ (Succeeded(r) /\ Called(r, "extract_text_from_pdf")) =>
              LET pages == req[r].file.pages
              IN  /\ raw_text[r] = pages_text(pages)
                  /\ ocr_pages[r] = scanned_pages(pages)
                  /\ \A i \in 1..Len(pages) :
                        \A kw \in Range(DOCUMENT_KEYWORDS[req[r].type]) :
                            occurs(kw, pages_text(<<pages[i]>>)) =>
                                resp[r].content.is_valid

\* A PDF of three pages: the first with the text BIR FORM 2303, the other
\* two scanned and without a keyword; checked as a BIR form, it is valid.
C10_Witness ==
    \E r \in Reqs :
        /\ Succeeded(r)
        /\ req[r].type = "bir-form"
        /\ Len(req[r].file.pages) = 3
        /\ req[r].file.pages[1] = Page(Some(BIR_FORM_2303), PASSPORT_CAPS)
        /\ ocr_pages[r] = <<2, 3>>
        /\ ~occurs(DOCUMENT_KEYWORDS["bir-form"][1], pages_text(SubSeq(req[r].file.pages, 2, 3)))
        /\ resp[r].content.is_valid

====
